---- MODULE Spec2Model ----
(***************************************************************************)
(* Model of calculator.py: the restricted expression evaluator `evaluate`  *)
(* (compile, allow-list validation of code.co_names, eval with             *)
(* Calculator.ALLOWED_NAMES as local namespace) and the Calculator widget  *)
(* handlers that feed it (key buffer, input field, result display).        *)
(*                                                                         *)
(* An expression is a sequence of pieces: one piece per character for the  *)
(* digits and the punctuation, one piece per word for identifiers and one  *)
(* piece per quoted string literal.  The text of the expression is the     *)
(* concatenation of its pieces, without white space.                       *)
(***************************************************************************)
EXTENDS Integers, Sequences, FiniteSets, TLC

(***************************************************************************)
(* Values of the Python run time.  Every value is a record of one shape:   *)
(*   t = "int"    n is the integer                                         *)
(*   t = "float"  n/d is the number (d > 0, lowest terms)                  *)
(*   t = "str"    s is the text                                            *)
(*   t = "none"   None                                                     *)
(*   t = "ellipsis"  Ellipsis, the value of the literal "..."              *)
(*   t = "complex"   a complex number (its value is not modelled)          *)
(*   t = "func"   built-in function of the math module named s            *)
(*   t = "obj"    the run-time object named s (see ObjAttr)                *)
(*   t = "lambda" function object; body = <<node of its body>>             *)
(***************************************************************************)
Val(t, s, n, d) == [t |-> t, s |-> s, n |-> n, d |-> d, body |-> <<>>]
IntVal(n) == Val("int", "", n, 1)
StrVal(s) == Val("str", s, 0, 1)
NoneVal == Val("none", "", 0, 1)
FuncVal(s) == Val("func", s, 0, 1)
ObjVal(s) == Val("obj", s, 0, 1)
LambdaVal(bodyNode) == [t |-> "lambda", s |-> "", n |-> 0, d |-> 1, body |-> <<bodyNode>>]

Abs(x) == IF x < 0 THEN -x ELSE x

RECURSIVE Gcd(_, _)
Gcd(a, b) == IF b = 0 THEN a ELSE Gcd(b, a % b)

\* a float with value n/d, d # 0, in lowest terms with positive denominator
FloatVal(n, d) ==
    LET g == Gcd(Abs(n), Abs(d))
        sgn == IF d < 0 THEN -1 ELSE 1
    IN Val("float", "", sgn * (n \div g), sgn * (d \div g))

IsNumber(v) == v.t \in {"int", "float"}

(***************************************************************************)
(* Lexical analysis of compile(expression, "<string>", "eval").            *)
(***************************************************************************)
DigitChars == <<"0", "1", "2", "3", "4", "5", "6", "7", "8", "9">>
Digits == {DigitChars[i] : i \in 1..Len(DigitChars)}
DigitValue(c) == (CHOOSE i \in 1..Len(DigitChars) : DigitChars[i] = c) - 1
Punctuation == {".", "+", "-", "*", "/", "(", ")", "[", "]", ":", "=", ","}
\* quoted string literals, one piece each, and the text they denote
StringLiterals == {"'sys'", "'__main__'", "'__x'"}
StringText(c) ==
    CASE c = "'sys'" -> "sys"
      [] c = "'__main__'" -> "__main__"
      [] c = "'__x'" -> "__x"
Keywords == {"lambda"}
\* every other piece is a word made of identifier characters
IsWord(c) == c \notin Digits /\ c \notin Punctuation /\ c \notin StringLiterals

\* a token: kind k ("int", "float", "str", "name", "kw", "op", "error"), text s, literal value v
Tok(k, s, v) == [k |-> k, s |-> s, v |-> v]
ErrorTok == Tok("error", "", NoneVal)

RECURSIVE DigitRun(_, _)
\* number of consecutive digit pieces of p from position i on
DigitRun(p, i) ==
    IF i <= Len(p) /\ p[i] \in Digits THEN 1 + DigitRun(p, i + 1) ELSE 0

RECURSIVE DigitsNumber(_, _, _)
\* the decimal number written by the len digits of p from position i on
DigitsNumber(p, i, len) ==
    IF len = 0 THEN 0
    ELSE DigitsNumber(p, i, len - 1) * 10 + DigitValue(p[i + len - 1])

RECURSIVE Pow10(_)
Pow10(k) == IF k = 0 THEN 1 ELSE 10 * Pow10(k - 1)

RECURSIVE WordRun(_, _)
\* an identifier continues over the adjacent word and digit pieces
WordRun(p, i) ==
    IF i <= Len(p) /\ (IsWord(p[i]) \/ p[i] \in Digits) THEN 1 + WordRun(p, i + 1) ELSE 0

RECURSIVE WordText(_, _, _)
WordText(p, i, len) ==
    IF len = 0 THEN "" ELSE WordText(p, i, len - 1) \o p[i + len - 1]

\* a number literal directly followed by a word is no token ("1.real", "2pi");
\* the exponent and imaginary suffixes (1e5, 1j) are outside the alphabets used
NumberEnds(p, j) == ~(j <= Len(p) /\ IsWord(p[j]))

\* the token of p that starts at position i and the position after it;
\* ErrorTok marks a lexical error
TokAt(p, i) ==
    LET Span(tok, next) == [tok |-> tok, next |-> next]
        Is(j, c) == j <= Len(p) /\ p[j] = c
    IN IF p[i] \in Digits THEN
           LET k == DigitRun(p, i)
               j == i + k
               f == DigitRun(p, j + 1)
           IN IF Is(j, ".")
              THEN \* digits "." [digits] is a float; leading zeros are allowed
                   IF NumberEnds(p, j + 1 + f)
                   THEN Span(Tok("float", "",
                               FloatVal(DigitsNumber(p, i, k) * Pow10(f)
                                            + DigitsNumber(p, j + 1, f), Pow10(f))),
                           j + 1 + f)
                   ELSE Span(ErrorTok, j + 1 + f)
              ELSE IF k > 1 /\ p[i] = "0" /\ \E m \in i..(j - 1) : p[m] # "0"
                   THEN Span(ErrorTok, j)   \* leading zeros in a decimal integer literal
              ELSE IF NumberEnds(p, j)
                   THEN Span(Tok("int", "", IntVal(DigitsNumber(p, i, k))), j)
                   ELSE Span(ErrorTok, j)
       ELSE IF p[i] = "." /\ i < Len(p) /\ p[i + 1] \in Digits THEN
           LET f == DigitRun(p, i + 1)
           IN IF NumberEnds(p, i + 1 + f)
              THEN Span(Tok("float", "", FloatVal(DigitsNumber(p, i + 1, f), Pow10(f))),
                      i + 1 + f)
              ELSE Span(ErrorTok, i + 1 + f)
       ELSE IF p[i] = "." /\ Is(i + 1, ".") /\ Is(i + 2, ".")
           THEN Span(Tok("op", "...", NoneVal), i + 3)
       ELSE IF p[i] = "*" /\ Is(i + 1, "*") THEN Span(Tok("op", "**", NoneVal), i + 2)
       ELSE IF p[i] = "/" /\ Is(i + 1, "/") THEN Span(Tok("op", "//", NoneVal), i + 2)
       ELSE IF p[i] = ":" /\ Is(i + 1, "=") THEN Span(Tok("op", ":=", NoneVal), i + 2)
       ELSE IF p[i] = "=" THEN Span(ErrorTok, i + 1)   \* "=" alone is no operator of an expression
       ELSE IF p[i] \in Punctuation THEN Span(Tok("op", p[i], NoneVal), i + 1)
       ELSE IF p[i] \in StringLiterals
           THEN Span(Tok("str", "", StrVal(StringText(p[i]))), i + 1)
       ELSE LET k == WordRun(p, i)
                w == WordText(p, i, k)
            IN Span(Tok(IF w \in Keywords THEN "kw" ELSE "name", w, NoneVal), i + k)

RECURSIVE Lex(_, _)
\* the tokens of p from position i on
Lex(p, i) ==
    IF i > Len(p) THEN <<>> ELSE <<TokAt(p, i).tok>> \o Lex(p, TokAt(p, i).next)

(***************************************************************************)
(* Syntax trees.  A node is a record of one shape: kind k, identifier or   *)
(* operator id, literal value v, children kids.                            *)
(*   "num" v (a number or Ellipsis)       "str" v                          *)
(*   "tuple" (the display "()")                                            *)
(*   "name" id          "attr" id <<e>>   "sub" <<e, index>>               *)
(*   "call" <<f, a1, ..., an>>            "lambda" <<body>>                *)
(*   "bin" id <<l, r>>  "un" id <<e>>     "walrus" id <<e>>                *)
(***************************************************************************)
Node(k, id, v, kids) == [k |-> k, id |-> id, v |-> v, kids |-> kids]
NullNode == Node("null", "", NoneVal, <<>>)

Parsed(node, pos) == [ok |-> TRUE, node |-> node, pos |-> pos]
Fail == [ok |-> FALSE, node |-> NullNode, pos |-> 0]
IsOp(T, i, s) == i <= Len(T) /\ T[i].k = "op" /\ T[i].s = s

(***************************************************************************)
(* The expression grammar of Python restricted to the tokens above:        *)
(*   named   ::= NAME ":=" test | test                                     *)
(*   test    ::= "lambda" ":" test | arith                                 *)
(*   arith   ::= term (("+" | "-") term)*                                  *)
(*   term    ::= factor (("*" | "/" | "//") factor)*                       *)
(*   factor  ::= ("+" | "-") factor | power                                *)
(*   power   ::= primary ["**" factor]                                     *)
(*   primary ::= atom ("." NAME | "(" [named ("," named)* [","]] ")"       *)
(*                    | "[" named "]")*                                    *)
(*   atom    ::= NUMBER | STRING | NAME | "..." | "(" ")" | "(" named ")"  *)
(* Each operator takes the tokens T and a position and returns Parsed or   *)
(* Fail.                                                                   *)
(***************************************************************************)
RECURSIVE ParseNamed(_, _), ParseTest(_, _), ArithRest(_, _, _), TermRest(_, _, _)
RECURSIVE ParseFactor(_, _), Trailers(_, _, _), ParseAtom(_, _), ParseArgs(_, _, _)

\* what stands at position i of T: "end", the kind of a literal, name or
\* keyword token, or the text of an operator token
At(T, i) == IF i > Len(T) THEN "end" ELSE IF T[i].k = "op" THEN T[i].s ELSE T[i].k

\* The element of a singleton.  The({F(r) : r \in {e}}) is F(e) with e
\* computed once, however often F uses it.
The(S) == CHOOSE x \in S : TRUE

ParseAtom(T, i) ==
    CASE At(T, i) \in {"int", "float", "str"} ->
            Parsed(Node(IF T[i].k = "str" THEN "str" ELSE "num", "", T[i].v, <<>>), i + 1)
      [] At(T, i) = "name" -> Parsed(Node("name", T[i].s, NoneVal, <<>>), i + 1)
      [] At(T, i) = "..." -> Parsed(Node("num", "", Val("ellipsis", "", 0, 1), <<>>), i + 1)
      [] At(T, i) = "(" /\ At(T, i + 1) = ")" -> Parsed(Node("tuple", "", NoneVal, <<>>), i + 2)
      [] At(T, i) = "(" /\ At(T, i + 1) # ")" ->
            The({IF e.ok /\ At(T, e.pos) = ")" THEN Parsed(e.node, e.pos + 1) ELSE Fail :
                 e \in {ParseNamed(T, i + 1)}})
      [] OTHER -> Fail

\* the arguments of a call up to and including the closing parenthesis; the
\* result node is call with the arguments appended to its children
ParseArgs(T, call, i) ==
    IF At(T, i) = ")" THEN Parsed(call, i + 1)
    ELSE The({CASE e.ok /\ At(T, e.pos) = "," ->
                      ParseArgs(T, [call EXCEPT !.kids = Append(@, e.node)], e.pos + 1)
                [] e.ok /\ At(T, e.pos) = ")" ->
                      Parsed([call EXCEPT !.kids = Append(@, e.node)], e.pos + 1)
                [] OTHER -> Fail :
              e \in {ParseNamed(T, i)}})

Trailers(T, left, i) ==
    CASE At(T, i) = "." /\ At(T, i + 1) = "name" ->
            Trailers(T, Node("attr", T[i + 1].s, NoneVal, <<left>>), i + 2)
      [] At(T, i) = "." /\ At(T, i + 1) # "name" -> Fail
      [] At(T, i) = "(" ->
            The({IF a.ok THEN Trailers(T, a.node, a.pos) ELSE Fail :
                 a \in {ParseArgs(T, Node("call", "", NoneVal, <<left>>), i + 1)}})
      [] At(T, i) = "[" ->
            The({IF e.ok /\ At(T, e.pos) = "]"
                 THEN Trailers(T, Node("sub", "", NoneVal, <<left, e.node>>), e.pos + 1)
                 ELSE Fail :
                 e \in {ParseNamed(T, i + 1)}})
      [] OTHER -> Parsed(left, i)

ParsePrimary(T, i) ==
    The({IF a.ok THEN Trailers(T, a.node, a.pos) ELSE Fail : a \in {ParseAtom(T, i)}})

ParsePower(T, i) ==
    The({IF b.ok /\ At(T, b.pos) = "**"
         THEN The({IF e.ok THEN Parsed(Node("bin", "**", NoneVal, <<b.node, e.node>>), e.pos)
                   ELSE Fail :
                   e \in {ParseFactor(T, b.pos + 1)}})
         ELSE b :
         b \in {ParsePrimary(T, i)}})

ParseFactor(T, i) ==
    IF At(T, i) \in {"+", "-"}
    THEN The({IF e.ok THEN Parsed(Node("un", T[i].s, NoneVal, <<e.node>>), e.pos) ELSE Fail :
              e \in {ParseFactor(T, i + 1)}})
    ELSE ParsePower(T, i)

TermRest(T, left, i) ==
    IF At(T, i) \in {"*", "/", "//"}
    THEN The({IF r.ok THEN TermRest(T, Node("bin", T[i].s, NoneVal, <<left, r.node>>), r.pos)
              ELSE Fail :
              r \in {ParseFactor(T, i + 1)}})
    ELSE Parsed(left, i)

ParseTerm(T, i) ==
    The({IF f.ok THEN TermRest(T, f.node, f.pos) ELSE Fail : f \in {ParseFactor(T, i)}})

RECURSIVE ArithRestFlat(_, _, _)
\* ArithRest that takes * for an operator of the same precedence as + and -
ArithRestFlat(T, left, i) ==
    IF At(T, i) \in {"+", "-", "*"}
    THEN The({IF r.ok
              THEN ArithRestFlat(T, Node("bin", T[i].s, NoneVal, <<left, r.node>>), r.pos)
              ELSE Fail :
              r \in {ParseFactor(T, i + 1)}})
    ELSE Parsed(left, i)

ArithRest(T, left, i) ==
    IF At(T, i) \in {"+", "-"}
    THEN The({IF r.ok THEN ArithRest(T, Node("bin", T[i].s, NoneVal, <<left, r.node>>), r.pos)
              ELSE Fail :
              r \in {ParseTerm(T, i + 1)}})
    ELSE Parsed(left, i)

ParseArith(T, i) ==
    The({IF t.ok THEN ArithRest(T, t.node, t.pos) ELSE Fail : t \in {ParseTerm(T, i)}})

ParseTest(T, i) ==
    CASE At(T, i) = "kw" /\ At(T, i + 1) = ":" ->
            The({IF b.ok THEN Parsed(Node("lambda", "", NoneVal, <<b.node>>), b.pos) ELSE Fail :
                 b \in {ParseTest(T, i + 2)}})
      [] At(T, i) = "kw" /\ At(T, i + 1) # ":" -> Fail
      [] OTHER -> ParseArith(T, i)

ParseNamed(T, i) ==
    IF At(T, i) = "name" /\ At(T, i + 1) = ":="
    THEN The({IF e.ok THEN Parsed(Node("walrus", T[i].s, NoneVal, <<e.node>>), e.pos)
              ELSE Fail :
              e \in {ParseTest(T, i + 2)}})
    ELSE ParseTest(T, i)

\* compile in "exec" mode: the empty text is a valid (empty) program, whose
\* value is None
CompileExecMode(expr) ==
    The({IF T = <<>> THEN Parsed(Node("num", "", NoneVal, <<>>), 1)
         ELSE IF \E i \in 1..Len(T) : T[i].k = "error" THEN Fail
         ELSE The({IF r.ok /\ r.pos = Len(T) + 1 THEN r ELSE Fail : r \in {ParseTest(T, 1)}}) :
         T \in {Lex(expr, 1)}})

\* compile(expression, "<string>", "eval"): the syntax tree of the whole
\* expression, or Fail where compile raises SyntaxError
Compile(expr) ==
    The({IF \E i \in 1..Len(T) : T[i].k = "error" THEN Fail
         ELSE The({IF r.ok /\ r.pos = Len(T) + 1 THEN r ELSE Fail : r \in {ParseTest(T, 1)}}) :
         T \in {Lex(expr, 1)}})

(***************************************************************************)
(* code.co_names: the names the top-level code object refers to, global    *)
(* names, attribute names and assignment targets alike, in order of first  *)
(* use.  The body of a lambda is a code object of its own, stored as a     *)
(* constant: its names are not in co_names of the enclosing code.          *)
(***************************************************************************)
AddName(names, id) == IF \E i \in 1..Len(names) : names[i] = id THEN names ELSE Append(names, id)

RECURSIVE NamesOf(_, _), NamesOfKids(_, _, _)
NamesOf(node, acc) ==
    CASE node.k = "name" -> AddName(acc, node.id)
      [] node.k = "attr" -> AddName(NamesOfKids(node.kids, 1, acc), node.id)
      [] node.k = "walrus" -> AddName(NamesOfKids(node.kids, 1, acc), node.id)
      [] node.k = "lambda" -> acc
      [] OTHER -> NamesOfKids(node.kids, 1, acc)
NamesOfKids(kids, i, acc) ==
    IF i > Len(kids) THEN acc ELSE NamesOfKids(kids, i + 1, NamesOf(kids[i], acc))

CoNames(code) == NamesOf(code, <<>>)

(***************************************************************************)
(* Arithmetic of Python numbers.  A float is modelled by the exact         *)
(* rational; rounding is not modelled.  Results are [v, exc], exc = ""     *)
(* when no exception is raised.                                            *)
(***************************************************************************)
Ok(v) == [v |-> v, exc |-> ""]
Raise(exc) == [v |-> NoneVal, exc |-> exc]

RECURSIVE IntPow(_, _)
IntPow(b, e) == IF e = 0 THEN 1 ELSE b * IntPow(b, e - 1)

\* floor of n/d for d # 0
FloorDiv(n, d) == IF d > 0 THEN n \div d ELSE (-n) \div (-d)

RECURSIVE PowUpTo(_, _, _)
\* b ** e for b >= 0, or some number above cap when b ** e is above cap
PowUpTo(b, e, cap) ==
    IF e = 0 THEN 1
    ELSE LET q == PowUpTo(b, e - 1, cap) IN IF q > cap THEN q ELSE b * q

\* the exact k-th root of x >= 0 when it is an integer, or -1
ExactRoot(x, k) ==
    IF \E r \in 0..x : PowUpTo(r, k, x) = x
    THEN CHOOSE r \in 0..x : PowUpTo(r, k, x) = x
    ELSE -1

\* a float result that no rational represents (an irrational root)
Inexact == Val("float", "inexact", 0, 1)

\* (n/d) ** (a/b) for n/d >= 0, a >= 0, b > 0
RootPow(n, d, a, b) ==
    LET rn == ExactRoot(n, b)
        rd == ExactRoot(d, b)
    IN IF rn < 0 \/ rd < 0 THEN Inexact ELSE FloatVal(IntPow(rn, a), IntPow(rd, a))

Power(x, y) ==
    IF x.t = "int" /\ y.t = "int" /\ y.n >= 0 THEN Ok(IntVal(IntPow(x.n, y.n)))
    ELSE IF x.n = 0 /\ y.n < 0 THEN Raise("ZeroDivisionError")
    ELSE IF y.d = 1 THEN
        \* integral exponent
        IF y.n >= 0 THEN Ok(FloatVal(IntPow(x.n, y.n), IntPow(x.d, y.n)))
        ELSE Ok(FloatVal(IntPow(x.d, -y.n), IntPow(x.n, -y.n)))
    ELSE IF x.n < 0 THEN Ok(Val("complex", "inexact", 0, 1))  \* a complex result
    ELSE IF y.n >= 0 THEN Ok(RootPow(x.n, x.d, y.n, y.d))
    ELSE Ok(RootPow(x.d, x.n, -y.n, y.d))

\* the binary operator op applied to the values x and y
BinOp(op, x, y) ==
    IF op = "+" /\ x.t = "str" /\ y.t = "str" THEN Ok(StrVal(x.s \o y.s))
    ELSE IF \/ op = "+" /\ x = ObjVal("tuple") /\ y = ObjVal("tuple")
            \/ op = "*" /\ {x, y} \in {{ObjVal("tuple"), IntVal(k)} : k \in {x.n, y.n}}
        THEN Ok(ObjVal("tuple"))   \* the empty tuple, concatenated or repeated
    ELSE IF ~(IsNumber(x) /\ IsNumber(y)) THEN Raise("TypeError")
    ELSE IF x.s = "inexact" \/ y.s = "inexact" THEN Ok(Inexact)
    ELSE LET bothInt == x.t = "int" /\ y.t = "int"
             num(n, d) == IF bothInt THEN IntVal(n) ELSE FloatVal(n, d)
         IN CASE op = "+" -> Ok(num(x.n * y.d + y.n * x.d, x.d * y.d))
              [] op = "-" -> Ok(num(x.n * y.d - y.n * x.d, x.d * y.d))
              [] op = "*" -> Ok(num(x.n * y.n, x.d * y.d))
              [] op = "/" -> IF y.n = 0 THEN Raise("ZeroDivisionError")
                             ELSE Ok(FloatVal(x.n * y.d, x.d * y.n))
              [] op = "//" -> IF y.n = 0 THEN Raise("ZeroDivisionError")
                              ELSE Ok(num(FloorDiv(x.n * y.d, x.d * y.n), 1))
              [] op = "**" -> Power(x, y)

UnOp(op, x) ==
    IF ~IsNumber(x) THEN Raise("TypeError")
    ELSE IF op = "-" THEN Ok([x EXCEPT !.n = -@])
    ELSE Ok(x)

\* math.sqrt
Sqrt(args) ==
    IF Len(args) # 1 \/ ~IsNumber(args[1]) THEN Raise("TypeError")
    ELSE IF args[1].n < 0 THEN Raise("ValueError")   \* math domain error
    ELSE IF args[1].s = "inexact" THEN Ok(Inexact)
    ELSE Ok(RootPow(args[1].n, args[1].d, 1, 2))

(***************************************************************************)
(* The objects that attribute access reaches from a literal without any    *)
(* name: every object has __class__, every class has __base__ and          *)
(* __subclasses__, the subclasses of object include the frozen importer    *)
(* BuiltinImporter, which loads sys, whose modules hold the __main__       *)
(* module of the running script and with it the Calculator class and its   *)
(* ALLOWED_NAMES dictionary.  Objects are named by strings; index 0 of     *)
(* the list of subclasses stands for the position of BuiltinImporter.      *)
(***************************************************************************)
Classes == {"class_object", "class_type", "class_int", "class_float", "class_complex",
            "class_str", "class_NoneType", "class_ellipsis", "class_tuple", "class_list", "class_dict",
            "class_module", "class_method", "class_function", "class_builtin_function",
            "class_BuiltinImporter", "class_Calculator"}

ClassOf(v) ==
    CASE v.t = "int" -> "class_int"
      [] v.t = "float" -> "class_float"
      [] v.t = "complex" -> "class_complex"
      [] v.t = "str" -> "class_str"
      [] v.t = "none" -> "class_NoneType"
      [] v.t = "ellipsis" -> "class_ellipsis"
      [] v.t = "func" -> "class_builtin_function"
      [] v.t = "lambda" -> "class_function"
      [] v.t = "obj" ->
            CASE v.s \in Classes -> "class_type"
              [] v.s = "tuple" -> "class_tuple"
              [] v.s \in {"list_subclasses", "list_empty"} -> "class_list"
              [] v.s \in {"dict_modules", "dict_ALLOWED_NAMES", "dict_builtins"} -> "class_dict"
              [] v.s \in {"module_sys", "module_main"} -> "class_module"
              [] OTHER -> "class_method"

\* getattr(v, id)
ObjAttr(v, id) ==
    IF id = "__class__" THEN Ok(ObjVal(ClassOf(v)))
    ELSE IF v.t = "obj" /\ v.s \in Classes /\ id = "__base__"
        THEN Ok(IF v.s = "class_object" THEN NoneVal ELSE ObjVal("class_object"))
    ELSE IF v.t = "obj" /\ v.s \in Classes /\ id = "__subclasses__"
        THEN Ok(ObjVal(IF v.s = "class_object" THEN "method_subclasses"
                       ELSE "method_no_subclasses"))
    ELSE IF v = ObjVal("class_BuiltinImporter") /\ id = "load_module"
        THEN Ok(ObjVal("method_load_module"))
    ELSE IF v = ObjVal("module_sys") /\ id = "modules" THEN Ok(ObjVal("dict_modules"))
    ELSE IF v = ObjVal("module_main") /\ id = "Calculator" THEN Ok(ObjVal("class_Calculator"))
    ELSE IF v = ObjVal("class_Calculator") /\ id = "ALLOWED_NAMES"
        THEN Ok(ObjVal("dict_ALLOWED_NAMES"))
    ELSE IF v = ObjVal("dict_ALLOWED_NAMES") /\ id = "__setitem__"
        THEN Ok(ObjVal("method_setitem"))
    ELSE Raise("AttributeError")

\* v[key]; names is the content of Calculator.ALLOWED_NAMES
ObjItem(v, key, names) ==
    IF v \in {ObjVal("list_subclasses"), ObjVal("list_empty")} THEN
        IF key.t # "int" THEN Raise("TypeError")
        ELSE IF v = ObjVal("list_subclasses") /\ key.n = 0
            THEN Ok(ObjVal("class_BuiltinImporter"))
        ELSE Raise("IndexError")
    ELSE IF v = ObjVal("dict_modules") THEN
        IF key = StrVal("__main__") THEN Ok(ObjVal("module_main"))
        ELSE IF key = StrVal("sys") THEN Ok(ObjVal("module_sys"))
        ELSE Raise("KeyError")
    ELSE IF v = ObjVal("dict_ALLOWED_NAMES") THEN
        IF key.t = "str" /\ key.s \in DOMAIN names THEN Ok(names[key.s]) ELSE Raise("KeyError")
    ELSE IF v = ObjVal("dict_builtins") THEN Raise("KeyError")
    ELSE Raise("TypeError")

(***************************************************************************)
(* eval(code, {"__builtins__": {}}, Calculator.ALLOWED_NAMES).             *)
(* The state st threaded through the evaluation is                         *)
(*   names   the content of the dictionary Calculator.ALLOWED_NAMES, which *)
(*           is the local namespace of the top-level code                  *)
(*   used    the names looked up, fetched as attributes or bound so far    *)
(*   vars    the local variables of the running lambda frame: the targets  *)
(*           of the assignment expressions of its body                     *)
(*   env     the values of the local variables bound so far                *)
(* and a result is such a state with the value v and the exception exc.    *)
(* nested is TRUE inside the body of a lambda: its code runs in a frame of *)
(* its own, where an assignment target is a local (STORE_FAST, LOAD_FAST)  *)
(* and any other name is a global (LOAD_GLOBAL: the globals                *)
(* {"__builtins__": {}}, then the empty builtins).                         *)
(***************************************************************************)
Res(r, st) == [v |-> r.v, exc |-> r.exc, names |-> st.names, used |-> st.used,
               vars |-> st.vars, env |-> st.env]
NoLocals == [k \in {} |-> NoneVal]
Bind(f, id, v) == [k \in DOMAIN f \cup {id} |-> IF k = id THEN v ELSE f[k]]

RECURSIVE TargetsOf(_), TargetsOfKids(_, _)
\* the assignment targets of a lambda body, inner lambdas excluded
TargetsOf(node) ==
    CASE node.k = "walrus" -> {node.id} \cup TargetsOfKids(node.kids, 1)
      [] node.k = "lambda" -> {}
      [] OTHER -> TargetsOfKids(node.kids, 1)
TargetsOfKids(kids, i) ==
    IF i > Len(kids) THEN {} ELSE TargetsOf(kids[i]) \cup TargetsOfKids(kids, i + 1)

RECURSIVE Eval(_, _, _), EvalArgs(_, _, _, _, _, _)

\* the call f(args) of anything but a lambda
Apply(f, args, st) ==
    IF f.t = "func" /\ f.s = "sqrt" THEN Res(Sqrt(args), st)
    ELSE IF f \in {ObjVal("method_subclasses"), ObjVal("method_no_subclasses")} THEN
        IF Len(args) # 0 THEN Res(Raise("TypeError"), st)
        ELSE Res(Ok(ObjVal(IF f.s = "method_subclasses" THEN "list_subclasses"
                           ELSE "list_empty")), st)
    ELSE IF f = ObjVal("method_load_module") THEN
        IF Len(args) # 1 THEN Res(Raise("TypeError"), st)
        ELSE IF args[1] = StrVal("sys") THEN Res(Ok(ObjVal("module_sys")), st)
        ELSE Res(Raise("ImportError"), st)
    ELSE IF f = ObjVal("method_setitem") THEN
        \* dict.__setitem__(key, value) on Calculator.ALLOWED_NAMES
        IF Len(args) # 2 \/ args[1].t # "str" THEN Res(Raise("TypeError"), st)
        ELSE Res(Ok(NoneVal), [st EXCEPT !.names = Bind(@, args[1].s, args[2])])
    ELSE IF f = ObjVal("class_tuple") /\ Len(args) = 0 THEN Res(Ok(ObjVal("tuple")), st)
    ELSE Res(Raise("TypeError"), st)   \* not callable

\* the arguments kids[i..] of a call, left to right, then the call: the body
\* of a lambda runs in a new frame, after which the frame of the caller resumes
EvalArgs(f, kids, i, args, st, nested) ==
    IF i <= Len(kids)
    THEN The({IF a.exc # "" THEN a
              ELSE EvalArgs(f, kids, i + 1, Append(args, a.v), a, nested) :
              a \in {Eval(kids[i], st, nested)}})
    ELSE IF f.t = "lambda" /\ Len(args) = 0
    THEN The({[r EXCEPT !.vars = st.vars, !.env = st.env] :
              r \in {Eval(f.body[1],
                          [st EXCEPT !.vars = TargetsOf(f.body[1]), !.env = NoLocals],
                          TRUE)}})
    ELSE Apply(f, args, st)

Eval(node, st, nested) ==
    CASE node.k \in {"num", "str"} -> Res(Ok(node.v), st)
      [] node.k = "tuple" -> Res(Ok(ObjVal("tuple")), st)
      [] node.k = "lambda" -> Res(Ok(LambdaVal(node.kids[1])), st)
      [] node.k = "name" ->
            The({IF nested /\ node.id \in st.vars THEN
                     IF node.id \in DOMAIN st.env THEN Res(Ok(st.env[node.id]), u)
                     ELSE Res(Raise("UnboundLocalError"), u)
                 ELSE IF ~nested /\ node.id \in DOMAIN st.names
                     THEN Res(Ok(st.names[node.id]), u)
                 ELSE IF node.id = "__builtins__" THEN Res(Ok(ObjVal("dict_builtins")), u)
                 ELSE Res(Raise("NameError"), u) :
                 u \in {[st EXCEPT !.used = @ \cup {node.id}]}})
      [] node.k = "walrus" ->
            The({IF e.exc # "" THEN e
                 ELSE IF nested THEN [e EXCEPT !.used = @ \cup {node.id},
                                               !.env = Bind(@, node.id, e.v)]
                 ELSE [e EXCEPT !.used = @ \cup {node.id},
                                !.names = Bind(@, node.id, e.v)] :
                 e \in {Eval(node.kids[1], st, nested)}})
      [] node.k = "attr" ->
            The({IF e.exc # "" THEN e
                 ELSE Res(ObjAttr(e.v, node.id), [e EXCEPT !.used = @ \cup {node.id}]) :
                 e \in {Eval(node.kids[1], st, nested)}})
      [] node.k = "sub" ->
            The({IF e.exc # "" THEN e
                 ELSE The({IF i.exc # "" THEN i ELSE Res(ObjItem(e.v, i.v, i.names), i) :
                           i \in {Eval(node.kids[2], e, nested)}}) :
                 e \in {Eval(node.kids[1], st, nested)}})
      [] node.k = "call" ->
            The({IF f.exc # "" THEN f ELSE EvalArgs(f.v, node.kids, 2, <<>>, f, nested) :
                 f \in {Eval(node.kids[1], st, nested)}})
      [] node.k = "un" ->
            The({IF e.exc # "" THEN e ELSE Res(UnOp(node.id, e.v), e) :
                 e \in {Eval(node.kids[1], st, nested)}})
      [] node.k = "bin" ->
            The({IF l.exc # "" THEN l
                 ELSE The({IF r.exc # "" THEN r ELSE Res(BinOp(node.id, l.v, r.v), r) :
                           r \in {Eval(node.kids[2], l, nested)}}) :
                 l \in {Eval(node.kids[1], st, nested)}})

\* the state in which the evaluation of a code object starts
EvalStart(names) == [v |-> NoneVal, exc |-> "", names |-> names, used |-> {},
                     vars |-> {}, env |-> NoLocals]

(***************************************************************************)
(* Calculator.ALLOWED_NAMES = {k: v for k, v in math.__dict__.items()      *)
(*                             if not k.startswith("__")}                  *)
(* The math module is represented by two of its public names and two of    *)
(* its reserved ones; pi is the float nearest to 22/7 in this model.       *)
(***************************************************************************)
MathDict ==
    [k \in {"__name__", "__doc__", "pi", "sqrt"} |->
        CASE k = "__name__" -> StrVal("math")
          [] k = "__doc__" -> StrVal("doc")
          [] k = "pi" -> FloatVal(22, 7)
          [] k = "sqrt" -> FuncVal("sqrt")]

\* the words of the model that start with two underscores
DunderWords == {"__name__", "__doc__", "__class__", "__base__", "__subclasses__",
                "__setitem__", "__builtins__", "__main__", "__x"}
StartsWithDunder(k) == k \in DunderWords

InitialAllowedNames ==
    [k \in {n \in DOMAIN MathDict : ~StartsWithDunder(n)} |-> MathDict[k]]

(***************************************************************************)
(* The state.                                                              *)
(***************************************************************************)
VARIABLES
    ALLOWED_NAMES,   \* the dictionary Calculator.ALLOWED_NAMES: name -> value
    pc,              \* position in evaluate: "idle", "compile", "validate", "eval"
    expression,      \* the argument of the running or of the last call of evaluate
    code,            \* the code object compiled from it
    pending,         \* the part of code.co_names the validation loop has still to visit
    outcome,         \* how the last call ended: returned a value or raised an exception
    evalRun,         \* eval(...) was executed in the running or last call
    used,            \* the names eval looked up, fetched or bound in that call
    last,            \* the call before: its expression and its outcome
    current_input,   \* Calculator.__current_input, the list of pressed keys
    input_field,     \* the text of ui.input_field, a sequence of characters
    result_field,    \* the value ui.result_field displays
    uncaught,        \* the exception that escaped a handler of the widget, or ""
    handled          \* the method the last event was dispatched to, or "" before any event

vars == <<ALLOWED_NAMES, pc, expression, code, pending, outcome, evalRun, used, last,
          current_input, input_field, result_field, uncaught, handled>>
evalVars == <<pc, expression, code, pending, outcome, evalRun, used, last>>
uiVars == <<current_input, input_field, result_field, uncaught, handled>>

\* how a call of evaluate ends; name is the identifier the message of the
\* NameError raised by the validation loop quotes
NoOutcome == [kind |-> "none", v |-> NoneVal, exc |-> "", name |-> ""]
Returned(v) == [kind |-> "returned", v |-> v, exc |-> "", name |-> ""]
Raised(exc, name) == [kind |-> "raised", v |-> NoneVal, exc |-> exc, name |-> name]

Init ==
    /\ ALLOWED_NAMES = InitialAllowedNames
    /\ pc = "idle"
    /\ expression = <<>>
    /\ code = NullNode
    /\ pending = <<>>
    /\ outcome = NoOutcome
    /\ evalRun = FALSE
    /\ used = {}
    /\ last = [expression |-> <<>>, outcome |-> NoOutcome]
    /\ current_input = <<>>
    /\ input_field = <<>>
    /\ result_field = IntVal(0)
    /\ uncaught = ""
    /\ handled = ""

(***************************************************************************)
(* evaluate(expression), statement by statement.                           *)
(***************************************************************************)
\* name in Calculator.ALLOWED_NAMES
NameAllowed(name, names) == name \in DOMAIN names

\* a caller enters evaluate
Call(expr) ==
    /\ pc = "idle"
    /\ pc' = "compile"
    /\ expression' = expr
    /\ last' = [expression |-> expression, outcome |-> outcome]
    /\ code' = NullNode
    /\ pending' = <<>>
    /\ outcome' = NoOutcome
    /\ evalRun' = FALSE
    /\ used' = {}
    /\ UNCHANGED <<ALLOWED_NAMES, uiVars>>

\* CompileStep without the try/except around compile: the SyntaxError leaves evaluate
CompileStepNoExcept ==
    /\ pc = "compile"
    /\ LET c == Compile(expression)
       IN IF c.ok
          THEN /\ code' = c.node
               /\ pending' = CoNames(c.node)
               /\ pc' = "validate"
               /\ UNCHANGED outcome
          ELSE /\ outcome' = Raised("SyntaxError", "")
               /\ pc' = "idle"
               /\ UNCHANGED <<code, pending>>
    /\ UNCHANGED <<ALLOWED_NAMES, expression, evalRun, used, last, uiVars>>

\* try: code = compile(...)  except SyntaxError: return "ERROR"
CompileStep ==
    /\ pc = "compile"
    /\ LET c == Compile(expression)
       IN IF c.ok
          THEN /\ code' = c.node
               /\ pending' = CoNames(c.node)
               /\ pc' = "validate"
               /\ UNCHANGED outcome
          ELSE /\ outcome' = Returned(StrVal("ERROR"))
               /\ pc' = "idle"
               /\ UNCHANGED <<code, pending>>
    /\ UNCHANGED <<ALLOWED_NAMES, expression, evalRun, used, last, uiVars>>

\* ValidateStep without the raise: a name that is not allowed is passed over
ValidateStepNoRaise ==
    /\ pc = "validate"
    /\ IF pending = <<>>
       THEN /\ pc' = "eval"
            /\ UNCHANGED pending
       ELSE /\ pending' = Tail(pending)
            /\ UNCHANGED pc
    /\ UNCHANGED <<ALLOWED_NAMES, expression, code, outcome, evalRun, used, last, uiVars>>

\* one turn of: for name in code.co_names: if name not in ALLOWED_NAMES: raise NameError
ValidateStep ==
    /\ pc = "validate"
    /\ IF pending = <<>>
       THEN /\ pc' = "eval"
            /\ UNCHANGED <<pending, outcome>>
       ELSE IF NameAllowed(Head(pending), ALLOWED_NAMES)
       THEN /\ pending' = Tail(pending)
            /\ UNCHANGED <<pc, outcome>>
       ELSE /\ outcome' = Raised("NameError", Head(pending))
            /\ pc' = "idle"
            /\ UNCHANGED pending
    /\ UNCHANGED <<ALLOWED_NAMES, expression, code, evalRun, used, last, uiVars>>

\* return eval(code, {"__builtins__": {}}, Calculator.ALLOWED_NAMES)
EvalStep ==
    /\ pc = "eval"
    /\ LET r == Eval(code, EvalStart(ALLOWED_NAMES), FALSE)
       IN /\ ALLOWED_NAMES' = r.names
          /\ used' = r.used
          /\ outcome' = IF r.exc = "" THEN Returned(r.v) ELSE Raised(r.exc, "")
    /\ evalRun' = TRUE
    /\ pc' = "idle"
    /\ UNCHANGED <<expression, code, pending, last, uiVars>>

(***************************************************************************)
(* The expressions evaluate is called with: every text of at most          *)
(* MaxExprLen pieces over ExprAlphabet, and the expressions of Probes.     *)
(***************************************************************************)
MaxExprLen == 2
ExprAlphabet == {"0", "1", "/", "pi", "foo"}

RECURSIVE Texts(_, _)
\* the sequences of at most n elements of alphabet
Texts(alphabet, n) ==
    IF n = 0 THEN {<<>>}
    ELSE LET shorter == Texts(alphabet, n - 1)
         IN shorter \cup {Append(t, c) : t \in shorter, c \in alphabet}

\* sqrt(-1)
DomainError == <<"sqrt", "(", "-", "1", ")">>
\* sqrt(4)
SqrtFour == <<"sqrt", "(", "4", ")">>
\* (pi:=-pi)
NegatePi == <<"(", "pi", ":", "=", "-", "pi", ")">>
\* (foo:=1)
BindFoo == <<"(", "foo", ":", "=", "1", ")">>
\* pi+foo+bar
TwoUnknown == <<"pi", "+", "foo", "+", "bar">>
\* 1/0+foo
FaultThenUnknown == <<"1", "/", "0", "+", "foo">>
\* ().__class__
TupleClass == <<"(", ")", ".", "__class__">>
\* (lambda:foo)()
LambdaUnknown == <<"(", "lambda", ":", "foo", ")", "(", ")">>
\* (lambda:().__class__)()
LambdaClass == <<"(", "lambda", ":", "(", ")", ".", "__class__", ")", "(", ")">>
\* (lambda:().__class__.__base__.__subclasses__()[0].load_module('sys')
\*     .modules['__main__'].Calculator.ALLOWED_NAMES.__setitem__('__x',1))()
Escape ==
    <<"(", "lambda", ":", "(", ")", ".", "__class__", ".", "__base__", ".",
      "__subclasses__", "(", ")", "[", "0", "]", ".", "load_module", "(", "'sys'", ")",
      ".", "modules", "[", "'__main__'", "]", ".", "Calculator", ".", "ALLOWED_NAMES",
      ".", "__setitem__", "(", "'__x'", ",", "1", ")", ")", "(", ")">>

Probes == {DomainError, SqrtFour, NegatePi, BindFoo, TwoUnknown, FaultThenUnknown,
           TupleClass, LambdaUnknown, LambdaClass, Escape}

Expressions == Texts(ExprAlphabet, MaxExprLen) \cup Probes

Next ==
    \/ \E expr \in Expressions : Call(expr)
    \/ CompileStep
    \/ ValidateStep
    \/ EvalStep

Spec == Init /\ [][Next]_vars

(***************************************************************************)
(* Properties of evaluate, stated for Spec.                                *)
(***************************************************************************)
\* the last call of evaluate has ended
CallEnded == pc = "idle" /\ outcome.kind # "none"

\* the identifiers of code.co_names that are missing from names
Offending(names) == {CoNames(code)[i] : i \in DOMAIN CoNames(code)} \ DOMAIN names

\* C1: a call whose expression parses and references an identifier that is not
\* in the allow-list ends by returning a failure that names an offending
\* identifier; it does not end with an exception leaving evaluate.
C1_NameFailureReturned ==
    (CallEnded /\ code # NullNode /\ Offending(ALLOWED_NAMES) # {})
        => (outcome.kind = "returned" /\ outcome.name \in Offending(ALLOWED_NAMES))

\* C2: the evaluation step starts only after the validation loop has visited
\* every name of code.co_names and found each of them in the allow-list; a
\* call the loop ends with a NameError has executed no part of the evaluation.
C2_ValidationBeforeEval ==
    /\ pc = "eval" => (pending = <<>> /\ Offending(ALLOWED_NAMES) = {})
    /\ evalRun => (pc = "idle" /\ code # NullNode /\ pending = <<>>)
    /\ (pc = "idle" /\ pending # <<>>)
           => /\ Head(pending) \notin DOMAIN ALLOWED_NAMES
              /\ outcome = Raised("NameError", Head(pending))
              /\ ~evalRun
              /\ used = {}

\* C2 witness: 1/0+foo was rejected by the validation loop, and the division
\* that comes first in the expression was not executed
C2_RejectedBeforeDivision ==
    /\ expression = FaultThenUnknown
    /\ pc = "idle"
    /\ outcome = Raised("NameError", "foo")
    /\ ~evalRun

\* the faults of the evaluation step: division by zero, domain error, overflow
EvaluationFaults == {"ZeroDivisionError", "ValueError", "OverflowError"}

\* C3: no call that passed the allow-list check and faulted at evaluation time
\* ends with the fault leaving evaluate as an exception.
C3_FaultReturned ==
    ~(CallEnded /\ evalRun /\ outcome.kind = "raised" /\ outcome.exc \in EvaluationFaults)

\* C4: every name the evaluation step looked up, fetched as an attribute or
\* bound is in the allow-list.
C4_OnlyAllowedNamesUsed == used \subseteq DOMAIN ALLOWED_NAMES

\* C5: a call with a syntactically invalid expression returns the failure
\* value "ERROR" and raises nothing; neither the validation loop nor the
\* evaluation step is reached.
C5_SyntaxErrorReturned ==
    /\ pc \in {"validate", "eval"} => Compile(expression).ok
    /\ (CallEnded /\ ~Compile(expression).ok)
           => /\ outcome = Returned(StrVal("ERROR"))
              /\ code = NullNode
              /\ pending = <<>>
              /\ ~evalRun
              /\ used = {}

\* C5 witness: the call with the text 1/ has ended
C5_DanglingOperatorEnded == CallEnded /\ expression = <<"1", "/">> /\ ~Compile(expression).ok

\* C6: two calls in a row with the same expression end the same way.
C6_Idempotent ==
    (CallEnded /\ last.outcome.kind # "none" /\ last.expression = expression)
        => outcome = last.outcome

\* C7: the allow-list is what it was at process start: no name added, removed
\* or bound to another value.
C7_AllowListImmutable == ALLOWED_NAMES = InitialAllowedNames

\* C8: no name of the allow-list starts with a double underscore.
C8_NoDunderAllowed == \A name \in DOMAIN ALLOWED_NAMES : ~StartsWithDunder(name)

\* C12: the call evaluate("") returns the failure value "ERROR" and raises
\* nothing.
C12_EmptyTextFails ==
    (CallEnded /\ expression = <<>>) => (outcome = Returned(StrVal("ERROR")) /\ ~evalRun)

\* C12 witness: the call with the empty text has ended
C12_EmptyCallEnded == CallEnded /\ expression = <<>> /\ outcome.kind = "returned"

(***************************************************************************)
(* Integer arithmetic.  An arithmetic expression is a tree of integer      *)
(* literals, unary minus and the operators + - *; Text writes it with the  *)
(* parentheses standard notation needs and no others, ValueOf is its value *)
(* in the integers.  ArithSpec is evaluate called once, with Text of a     *)
(* tree of at most MaxOps operators over Literals.                         *)
(***************************************************************************)
MaxOps == 2
Literals == {2, 3, 12}

Lit(n) == [op |-> "lit", n |-> n, kids |-> <<>>]
Neg(t) == [op |-> "neg", n |-> 0, kids |-> <<t>>]
Bin(op, l, r) == [op |-> op, n |-> 0, kids |-> <<l, r>>]

RECURSIVE Trees(_)
\* the trees of exactly n operators
Trees(n) ==
    IF n = 0 THEN {Lit(v) : v \in Literals}
    ELSE {Neg(t) : t \in Trees(n - 1)}
             \cup UNION {{Bin(op, l, r) : op \in {"+", "-", "*"}, l \in Trees(k),
                                          r \in Trees(n - 1 - k)} : k \in 0..(n - 1)}

RECURSIVE DigitsOf(_)
\* the decimal digits of n >= 0
DigitsOf(n) ==
    IF n < 10 THEN <<DigitChars[n + 1]>>
    ELSE DigitsOf(n \div 10) \o <<DigitChars[(n % 10) + 1]>>

\* how tightly the outermost operator of t binds
Binding(t) ==
    CASE t.op \in {"+", "-"} -> 1
      [] t.op = "*" -> 2
      [] t.op = "neg" -> 3
      [] t.op = "lit" -> 4

RECURSIVE Text(_, _)
\* t as an operand of an operator that needs binding least, or more
Text(t, least) ==
    LET bare == CASE t.op = "lit" -> DigitsOf(t.n)
                  [] t.op = "neg" -> <<"-">> \o Text(t.kids[1], 3)
                  [] t.op \in {"+", "-"} ->
                        Text(t.kids[1], 1) \o <<t.op>> \o Text(t.kids[2], 2)
                  [] t.op = "*" -> Text(t.kids[1], 2) \o <<"*">> \o Text(t.kids[2], 3)
    IN IF Binding(t) < least THEN <<"(">> \o bare \o <<")">> ELSE bare

RECURSIVE ValueOf(_)
ValueOf(t) ==
    CASE t.op = "lit" -> t.n
      [] t.op = "neg" -> 0 - ValueOf(t.kids[1])
      [] t.op = "+" -> ValueOf(t.kids[1]) + ValueOf(t.kids[2])
      [] t.op = "-" -> ValueOf(t.kids[1]) - ValueOf(t.kids[2])
      [] t.op = "*" -> ValueOf(t.kids[1]) * ValueOf(t.kids[2])

\* every expression with its value
ArithCases ==
    {[text |-> Text(t, 1), value |-> ValueOf(t)] : t \in UNION {Trees(n) : n \in 0..MaxOps}}
ArithTexts == {c.text : c \in ArithCases}

\* evaluate has been entered with an arithmetic expression
ArithInit ==
    /\ ALLOWED_NAMES = InitialAllowedNames
    /\ pc = "compile"
    /\ expression \in ArithTexts
    /\ code = NullNode
    /\ pending = <<>>
    /\ outcome = NoOutcome
    /\ evalRun = FALSE
    /\ used = {}
    /\ last = [expression |-> <<>>, outcome |-> NoOutcome]
    /\ current_input = <<>>
    /\ input_field = <<>>
    /\ result_field = IntVal(0)
    /\ uncaught = ""
    /\ handled = ""

ArithNext ==
    \/ CompileStep
    \/ ValidateStep
    \/ EvalStep

ArithSpec == ArithInit /\ [][ArithNext]_vars

\* C13: evaluate returns, for an expression of integer literals, + - *,
\* unary minus and parentheses, the integer standard arithmetic gives it:
\* * binds tighter than + and -, operators of one precedence group from the
\* left, parentheses override both.
C13_IntegerArithmetic ==
    CallEnded => \A c \in ArithCases :
                     c.text = expression => outcome = Returned(IntVal(c.value))

\* C13 witness: 2+3*12 was evaluated to 38, and (2+3)*12 is another text
C13_PrecedenceCase ==
    /\ CallEnded
    /\ expression = <<"2", "+", "3", "*", "1", "2">>
    /\ outcome = Returned(IntVal(38))
    /\ <<"(", "2", "+", "3", ")", "*", "1", "2">> \in ArithTexts

(***************************************************************************)
(* The Calculator widget.  Its handlers run to completion one at a time    *)
(* on the event loop; evaluate is then one call inside _calculate_result.  *)
(***************************************************************************)
RECURSIVE FirstDisallowed(_, _)
\* the first of co_names the validation loop rejects, or ""
FirstDisallowed(coNames, names) ==
    IF coNames = <<>> THEN ""
    ELSE IF NameAllowed(Head(coNames), names) THEN FirstDisallowed(Tail(coNames), names)
    ELSE Head(coNames)

\* evaluate(expression) as one call: its outcome and the content of
\* Calculator.ALLOWED_NAMES after it
evaluate(expr, names) ==
    LET c == Compile(expr)
        bad == FirstDisallowed(CoNames(c.node), names)
        r == Eval(c.node, EvalStart(names), FALSE)
    IN CASE ~c.ok -> [outcome |-> Returned(StrVal("ERROR")), names |-> names]
         [] c.ok /\ bad # "" -> [outcome |-> Raised("NameError", bad), names |-> names]
         [] c.ok /\ bad = "" ->
               [outcome |-> IF r.exc = "" THEN Returned(r.v) ELSE Raised(r.exc, ""),
                names |-> r.names]

\* self.__KEYBOARD_KEYS
KEYBOARD_KEYS == <<"0", "1", "2", "3", "4", "5", "6", "7", "8", "9", ".", "+", "-", "*", "/">>
\* self.__DIGIT_KEY_NAMES + self.__OPERATOR_KEY_NAMES
DIGIT_KEY_NAMES == <<"btn_0", "btn_1", "btn_2", "btn_3", "btn_4", "btn_5", "btn_6", "btn_7",
                     "btn_8", "btn_9">>
OPERATOR_KEY_NAMES == <<"btn_mult", "btn_div", "btn_add", "btn_sub", "btn_point">>

\* the text of a button, as calculator.ui declares it
ButtonText(button) ==
    CASE button = "btn_mult" -> "*"
      [] button = "btn_div" -> "/"
      [] button = "btn_add" -> "+"
      [] button = "btn_sub" -> "-"
      [] button = "btn_point" -> "."
      [] OTHER -> DigitChars[CHOOSE i \in 1..Len(DIGIT_KEY_NAMES) : DIGIT_KEY_NAMES[i] = button]

\* str.isdigit() of a one-character string
isdigit(element) == element \in Digits

RECURSIVE Join(_)
\* ''.join([str(el) for el in elements]), as the sequence of its characters;
\* every element is a string of one character
Join(elements) ==
    IF elements = <<>> THEN <<>> ELSE <<Head(elements)>> \o Join(Tail(elements))

\* list.index(element): the position of the first item equal to element
IndexOf(list, element) == CHOOSE i \in 1..Len(list) :
                              list[i] = element /\ \A j \in 1..(i - 1) : list[j] # element

\* QLCDNumber.display has overloads for str, float and int only
Displayable(v) == v.t \in {"int", "float", "str"}

\* _update_input_field that shows the new input alone: setText(new_input)
update_input_fieldShowsKey(new_input) ==
    /\ current_input' = Append(current_input, new_input)
    /\ input_field' = <<new_input>>
    /\ handled' = "_update_input_field"
    /\ UNCHANGED <<result_field, uncaught, ALLOWED_NAMES>>

\* _update_input_field(new_input)
update_input_field(new_input) ==
    /\ current_input' = Append(current_input, new_input)
    /\ input_field' = Join(current_input')
    /\ handled' = "_update_input_field"
    /\ UNCHANGED <<result_field, uncaught, ALLOWED_NAMES>>

\* _calculate_result without the test of the empty input
calculate_resultNoEmptyCheck ==
    LET e == evaluate(input_field, ALLOWED_NAMES)
    IN /\ handled' = "_calculate_result"
       /\ ALLOWED_NAMES' = e.names
       /\ IF e.outcome.kind = "raised"
          THEN uncaught' = e.outcome.exc /\ UNCHANGED result_field
          ELSE IF Displayable(e.outcome.v)
          THEN result_field' = e.outcome.v /\ UNCHANGED uncaught
          ELSE uncaught' = "TypeError" /\ UNCHANGED result_field
       /\ UNCHANGED <<current_input, input_field>>

\* _calculate_result that starts a new input once the result is displayed
calculate_resultStartsOver ==
    LET e == evaluate(input_field, ALLOWED_NAMES)
    IN /\ handled' = "_calculate_result"
       /\ IF input_field = <<>>
          THEN UNCHANGED <<current_input, input_field, result_field, uncaught, ALLOWED_NAMES>>
          ELSE /\ ALLOWED_NAMES' = e.names
               /\ IF e.outcome.kind = "raised"
                  THEN /\ uncaught' = e.outcome.exc
                       /\ UNCHANGED <<result_field, current_input, input_field>>
                  ELSE IF Displayable(e.outcome.v)
                  THEN /\ result_field' = e.outcome.v
                       /\ current_input' = <<>>
                       /\ input_field' = <<>>
                       /\ UNCHANGED uncaught
                  ELSE /\ uncaught' = "TypeError"
                       /\ UNCHANGED <<result_field, current_input, input_field>>

\* _calculate_result()
calculate_result ==
    LET calc_input == input_field
        e == evaluate(calc_input, ALLOWED_NAMES)
    IN /\ handled' = "_calculate_result"
       /\ IF calc_input = <<>>
          THEN UNCHANGED <<current_input, input_field, result_field, uncaught, ALLOWED_NAMES>>
          ELSE /\ ALLOWED_NAMES' = e.names
               /\ IF e.outcome.kind = "raised"
                  THEN uncaught' = e.outcome.exc /\ UNCHANGED result_field
                  ELSE IF Displayable(e.outcome.v)
                  THEN result_field' = e.outcome.v /\ UNCHANGED uncaught
                  ELSE uncaught' = "TypeError" /\ UNCHANGED result_field
               /\ UNCHANGED <<current_input, input_field>>

\* _clear_input() without self.ui.result_field.display(0)
clear_inputKeepsResult ==
    /\ current_input' = <<>>
    /\ input_field' = <<>>
    /\ handled' = "_clear_input"
    /\ UNCHANGED <<result_field, uncaught, ALLOWED_NAMES>>

\* _clear_input()
clear_input ==
    /\ current_input' = <<>>
    /\ input_field' = <<>>
    /\ result_field' = IntVal(0)
    /\ handled' = "_clear_input"
    /\ UNCHANGED <<uncaught, ALLOWED_NAMES>>

\* _remove_last_digit that removes the last element, whatever it is
remove_last_digitPop ==
    /\ handled' = "_remove_last_digit"
    /\ current_input' = SubSeq(current_input, 1, Len(current_input) - 1)
    /\ input_field' = Join(current_input')
    /\ UNCHANGED <<result_field, uncaught, ALLOWED_NAMES>>

\* _remove_last_digit()
remove_last_digit ==
    /\ handled' = "_remove_last_digit"
    /\ IF \E i \in 1..Len(current_input) : isdigit(current_input[i])
       THEN LET \* the first digit found by the traversal of reversed(current_input)
                last_pos == CHOOSE i \in 1..Len(current_input) :
                               /\ isdigit(current_input[i])
                               /\ \A j \in (i + 1)..Len(current_input) :
                                      ~isdigit(current_input[j])
                index_last_digit == IndexOf(current_input, current_input[last_pos])
            IN /\ current_input' = SubSeq(current_input, 1, index_last_digit - 1)
               /\ input_field' = Join(current_input')
               /\ UNCHANGED <<result_field, uncaught, ALLOWED_NAMES>>
       ELSE UNCHANGED <<current_input, input_field, result_field, uncaught, ALLOWED_NAMES>>

(***************************************************************************)
(* The events.  MaxDigit bounds the digit keys and buttons pressed,        *)
(* MaxInput the number of keys in the buffer.  An exception that escapes a *)
(* handler ends the application.                                           *)
(***************************************************************************)
MaxDigit == 0
MaxInput == 3

\* a key event: the text it types and the key code that matters to the handler
KeyEvent(text, key) == [text |-> text, key |-> key]
PressedKeys ==
    {KeyEvent(KEYBOARD_KEYS[i], "") : i \in 1..(MaxDigit + 1)}
        \cup {KeyEvent(KEYBOARD_KEYS[i], "") : i \in 11..Len(KEYBOARD_KEYS)}
        \cup {KeyEvent("=", ""), KeyEvent("c", ""), KeyEvent("", "Key_Backspace"),
              KeyEvent("a", "")}
PressedButtons ==
    {DIGIT_KEY_NAMES[i] : i \in 1..(MaxDigit + 1)}
        \cup {OPERATOR_KEY_NAMES[i] : i \in 1..Len(OPERATOR_KEY_NAMES)}

Appends(event) ==
    /\ event.text \notin {"=", "c"}
    /\ event.key # "Key_Backspace"
    /\ \E i \in 1..Len(KEYBOARD_KEYS) : KEYBOARD_KEYS[i] = event.text

\* keyPressEvent whose last branch appends the text of any key
keyPressEventAnyText(event) ==
    /\ uncaught = ""
    /\ Len(current_input) < MaxInput
    /\ CASE event.text = "=" -> calculate_result
         [] event.text # "=" /\ event.text = "c" -> clear_input
         [] event.text \notin {"=", "c"} /\ event.key = "Key_Backspace" -> remove_last_digit
         [] OTHER -> update_input_field(event.text)
    /\ UNCHANGED evalVars

keyPressEvent(event) ==
    /\ uncaught = ""
    /\ Appends(event) => Len(current_input) < MaxInput
    /\ CASE event.text = "=" -> calculate_result
         [] event.text # "=" /\ event.text = "c" -> clear_input
         [] event.text \notin {"=", "c"} /\ event.key = "Key_Backspace" -> remove_last_digit
         [] Appends(event) -> update_input_field(event.text)
         [] OTHER -> /\ handled' = "pass"
                     /\ UNCHANGED <<current_input, input_field, result_field, uncaught,
                                    ALLOWED_NAMES>>
    /\ UNCHANGED evalVars

\* _handle_button_press(pressed_button)
handle_button_press(pressed_button) ==
    /\ uncaught = ""
    /\ Len(current_input) < MaxInput
    /\ update_input_field(ButtonText(pressed_button))
    /\ UNCHANGED evalVars

\* btn_calculate.clicked
CalculateClicked == uncaught = "" /\ calculate_result /\ UNCHANGED evalVars
\* btn_clear.clicked
ClearClicked == uncaught = "" /\ clear_input /\ UNCHANGED evalVars
\* btn_delete_last.clicked
DeleteLastClicked == uncaught = "" /\ remove_last_digit /\ UNCHANGED evalVars

UINext ==
    \/ \E event \in PressedKeys : keyPressEvent(event)
    \/ \E button \in PressedButtons : handle_button_press(button)
    \/ CalculateClicked
    \/ ClearClicked
    \/ DeleteLastClicked

UISpec == Init /\ [][UINext]_vars

(***************************************************************************)
(* Properties of the widget, stated for UISpec.                            *)
(***************************************************************************)
\* the 'delete last' action: the button or the backspace key
DeleteLast == DeleteLastClicked \/ keyPressEvent(KeyEvent("", "Key_Backspace"))

\* the 'evaluate' action: the button or the = key
Calculate == CalculateClicked \/ keyPressEvent(KeyEvent("=", ""))

\* the position of the last digit element of buffer
LastDigit(buffer) ==
    CHOOSE i \in 1..Len(buffer) :
        isdigit(buffer[i]) /\ \A j \in (i + 1)..Len(buffer) : ~isdigit(buffer[j])

\* C9: 'delete last' on a buffer that holds a digit leaves exactly the
\* elements that preceded the last digit element of the buffer.
C9_DeleteLastTruncatesAtLastDigit ==
    [][(DeleteLast /\ \E i \in 1..Len(current_input) : isdigit(current_input[i]))
          => current_input' = SubSeq(current_input, 1, LastDigit(current_input) - 1)]_vars

\* C10: 'evaluate' on a buffer that is not empty ends with the result display
\* showing the number computed or "ERROR", and with no exception leaving the
\* handler.
C10_CalculateShowsResultOrError ==
    [][(Calculate /\ input_field # <<>>)
          => /\ uncaught' = ""
             /\ IsNumber(result_field') \/ result_field' = StrVal("ERROR")]_vars

\* C11: after the 'clear' action (the button or the c key) the buffer is
\* empty, the input field is empty and the result display shows 0.
C11_ClearResets ==
    handled = "_clear_input"
        => (current_input = <<>> /\ input_field = <<>> /\ result_field = IntVal(0))

\* C11 witness: 'clear' was the last action and left the widget running
C11_Cleared == handled = "_clear_input" /\ current_input = <<>> /\ uncaught = ""

\* a key press the handler has no branch for
Ignored(event) ==
    /\ event.text \notin {"=", "c"}
    /\ event.key # "Key_Backspace"
    /\ \A i \in 1..Len(KEYBOARD_KEYS) : KEYBOARD_KEYS[i] # event.text

HasDigit(buffer) == \E i \in 1..Len(buffer) : isdigit(buffer[i])

IsPrefix(short, long) == Len(short) <= Len(long) /\ short = SubSeq(long, 1, Len(short))

\* C14: 'evaluate' with an empty input field does not call the evaluator (the
\* display does not change to the "ERROR" evaluate("") returns, nor the
\* allow-list) and leaves the result display, the buffer and the input field
\* as they are.
C14_CalculateOnEmptyChangesNothing ==
    [][(Calculate /\ input_field = <<>>)
          => UNCHANGED <<current_input, input_field, result_field, uncaught,
                         ALLOWED_NAMES>>]_vars

\* C14 witness: 'evaluate' was the last action, on an empty input field, and
\* the display still shows the number of an earlier evaluation
C14_CalculatedOnEmpty ==
    /\ handled = "_calculate_result"
    /\ input_field = <<>>
    /\ result_field.t = "float"
    /\ uncaught = ""

\* C15: once a handler has run, the text of the input field is the
\* concatenation, in order, of the elements of the buffer.
C15_InputFieldShowsBuffer == handled # "" => input_field = Join(current_input)

\* C15 witness: a key was appended to a buffer that was not empty
C15_SecondKeyShown ==
    /\ handled = "_update_input_field"
    /\ Len(current_input) >= 2
    /\ input_field = Join(current_input)

\* C16: 'delete last' leaves a prefix of the buffer, strictly shorter exactly
\* when the buffer held a digit; with no digit in the buffer, buffer and
\* input field stay as they are; the result display never changes.
C16_DeleteLastLeavesPrefix ==
    [][DeleteLast
          => /\ IsPrefix(current_input', current_input)
             /\ (Len(current_input') < Len(current_input)) <=> HasDigit(current_input)
             /\ ~HasDigit(current_input) => UNCHANGED <<current_input, input_field>>
             /\ UNCHANGED result_field]_vars

\* C16 witness: 'delete last' has emptied the buffer of an evaluated input,
\* and the display still shows the result
C16_DeletedAfterResult ==
    /\ handled = "_remove_last_digit"
    /\ current_input = <<>>
    /\ result_field = StrVal("ERROR")

\* C17: 'evaluate' leaves the buffer and the input field as they are, and a
\* key appended after it extends the input that was evaluated.
C17_CalculateKeepsInput ==
    [][/\ Calculate => UNCHANGED <<current_input, input_field>>
       /\ (handled = "_calculate_result" /\ handled' = "_update_input_field")
              => /\ Len(current_input') = Len(current_input) + 1
                 /\ IsPrefix(current_input, current_input')
                 /\ input_field' = Join(current_input')]_vars

\* C17 witness: a key was appended after the evaluation of an input, whose
\* result is on display
C17_KeyAfterResult ==
    /\ handled = "_update_input_field"
    /\ current_input = <<"0", ".", "+">>
    /\ result_field = FloatVal(0, 1)

\* C18: every element of the buffer is one of the 15 characters of
\* KEYBOARD_KEYS; a key press that is not =, c, Backspace or one of these
\* characters changes nothing; the input evaluated from the widget refers to
\* no name, and no NameError comes out of its evaluation.
C18_OnlyKeyboardKeysBuffered ==
    /\ [](/\ \A i \in 1..Len(current_input) :
                 \E k \in 1..Len(KEYBOARD_KEYS) : current_input[i] = KEYBOARD_KEYS[k]
          /\ uncaught # "NameError"
          /\ (handled = "_calculate_result" /\ Compile(input_field).ok)
                 => CoNames(Compile(input_field).node) = <<>>)
    /\ [][(\E event \in PressedKeys : Ignored(event) /\ keyPressEvent(event))
             => UNCHANGED <<current_input, input_field, result_field, uncaught,
                            ALLOWED_NAMES>>]_vars

\* C18 witness: a key the handler has no branch for was pressed while the
\* buffer held two elements
C18_IgnoredKeyPressed == handled = "pass" /\ Len(current_input) = 2

====
